---- MODULE Spec2Model ----
(***************************************************************************)
(* Network Error Logging report endpoint (src/src/main.rs).                *)
(*                                                                         *)
(* One request is followed from main() through handle_reports() to the    *)
(* response.  The platform collaborators (geo lookup, user-agent parser,   *)
(* JSON serializer, log endpoint, clock) are external and fallible: their  *)
(* outcome is chosen nondeterministically at the step that calls them.     *)
(***************************************************************************)
EXTENDS Integers, Sequences, FiniteSets, TLC

(***************************************************************************)
(* Bounds of the model.                                                    *)
(***************************************************************************)
\* longest JSON array submitted in a request body
MaxReports == 2
\* the clock (Utc::now().timestamp()) ranges over 0..MaxClock
MaxClock == 1

(***************************************************************************)
(* Program constants.                                                      *)
(***************************************************************************)
V4_PREFIX_LEN == 28
V6_PREFIX_LEN == 56
NO_CONTENT == 204
NOT_FOUND == 404

(***************************************************************************)
(* Result<T, Error>                                                        *)
(***************************************************************************)
Ok(v) == [ok |-> TRUE, val |-> v]
Err(e) == [ok |-> FALSE, err |-> e]

(***************************************************************************)
(* IP addresses.  An IpAddr is [family, parts]: an IPv4 address has four   *)
(* 8-bit octets, an IPv6 address eight 16-bit segments.                    *)
(***************************************************************************)
V4(a, b, c, d) == [family |-> "V4", parts |-> <<a, b, c, d>>]
V6(s) == [family |-> "V6", parts |-> s]

Pow2(n) == 2 ^ n

Min(a, b) == IF a < b THEN a ELSE b
Max(a, b) == IF a > b THEN a ELSE b

\* x & y on w-bit words
RECURSIVE BitAnd(_, _, _)
BitAnd(x, y, w) ==
    IF w = 0 THEN 0
    ELSE (x % 2) * (y % 2) + 2 * BitAnd(x \div 2, y \div 2, w - 1)

\* The netmask of a prefix length, word by word: word i (of `width` bits)
\* has its top n bits set, n the number of prefix bits that fall in it.
NetmaskWord(prefix_len, i, width) ==
    LET n == Min(width, Max(0, prefix_len - width * (i - 1)))
    IN  Pow2(width) - Pow2(width - n)

WordWidth(family) == IF family = "V4" THEN 8 ELSE 16
MaxPrefixLen(family) == IF family = "V4" THEN 32 ELSE 128

\* ipnet::Ipv4Net::new / ipnet::Ipv6Net::new: the prefix length is checked
\* against the width of the address family.
IpNet_new(ip, prefix_len) ==
    IF prefix_len > MaxPrefixLen(ip.family)
    THEN Err("invalid IP prefix length")
    ELSE Ok([addr |-> ip, prefix_len |-> prefix_len])

\* mutant: trunc() left out, the host bits stay
IpNet_trunc_Identity(net) == net

\* IpNet::trunc: the network address, addr & netmask, with the same prefix.
IpNet_trunc(net) ==
    LET w == WordWidth(net.addr.family)
    IN  [addr |-> [family |-> net.addr.family,
                   parts  |-> [i \in DOMAIN net.addr.parts |->
                                 BitAnd(net.addr.parts[i],
                                        NetmaskWord(net.prefix_len, i, w), w)]],
         prefix_len |-> net.prefix_len]

HexDigits == <<"0", "1", "2", "3", "4", "5", "6", "7",
               "8", "9", "a", "b", "c", "d", "e", "f">>

\* format!("{:x}", n): lower-case hexadecimal without leading zeros
RECURSIVE Hex(_)
Hex(n) == IF n < 16 THEN HexDigits[n + 1]
          ELSE Hex(n \div 16) \o HexDigits[(n % 16) + 1]

\* the segments s[from..to] in hexadecimal, joined by ":"
RECURSIVE JoinHex(_, _, _)
JoinHex(s, from, to) ==
    IF from > to THEN ""
    ELSE IF from = to THEN Hex(s[from])
    ELSE Hex(s[from]) \o ":" \o JoinHex(s, from + 1, to)

\* Display for Ipv4Addr: the four octets in decimal, joined by "."
Ipv4Addr_to_string(parts) ==
    ToString(parts[1]) \o "." \o ToString(parts[2]) \o "."
        \o ToString(parts[3]) \o "." \o ToString(parts[4])

\* length of the run of zero segments of s that starts at position i
RECURSIVE ZeroRun(_, _)
ZeroRun(s, i) ==
    IF i > Len(s) \/ s[i] # 0 THEN 0 ELSE 1 + ZeroRun(s, i + 1)

\* start of the first longest run of zero segments of s
LongestZeroStart(s) ==
    CHOOSE i \in 1..Len(s) :
        /\ \A j \in 1..Len(s) : ZeroRun(s, j) <= ZeroRun(s, i)
        /\ \A j \in 1..(i - 1) : ZeroRun(s, j) < ZeroRun(s, i)

\* Display for Ipv6Addr: an IPv4-mapped address is written ::ffff:a.b.c.d;
\* otherwise the first longest run of two or more zero segments is written
\* "::" and the other segments in hexadecimal, joined by ":".
Ipv6Addr_to_string(s) ==
    IF (\A i \in 1..5 : s[i] = 0) /\ s[6] = 65535
    THEN "::ffff:" \o Ipv4Addr_to_string(<<s[7] \div 256, s[7] % 256,
                                           s[8] \div 256, s[8] % 256>>)
    ELSE LET st == LongestZeroStart(s)
             n  == ZeroRun(s, st)
         IN  IF n > 1
             THEN JoinHex(s, 1, st - 1) \o "::" \o JoinHex(s, st + n, 8)
             ELSE JoinHex(s, 1, 8)

IpAddr_to_string(ip) ==
    IF ip.family = "V4" THEN Ipv4Addr_to_string(ip.parts)
    ELSE Ipv6Addr_to_string(ip.parts)

\* Display for IpNet: "<addr>/<prefix_len>"
IpNet_to_string(net) ==
    IpAddr_to_string(net.addr) \o "/" \o ToString(net.prefix_len)

PrefixLenOf(ip) == IF ip.family = "V4" THEN V4_PREFIX_LEN ELSE V6_PREFIX_LEN

\* truncate_ip_to_prefix: IpNet::new(ip, 28 | 56).map(|i| i.trunc().to_string())
truncate_ip_to_prefix(ip) ==
    LET net == IpNet_new(ip, PrefixLenOf(ip))
    IN  IF net.ok THEN Ok(IpNet_to_string(IpNet_trunc(net.val)))
        ELSE Err(net.err)

\* Option<T>
None == [some |-> FALSE]
Some(v) == [some |-> TRUE, val |-> v]

(***************************************************************************)
(* JSON.  A request body and a log line are JSON texts; the model holds    *)
(* them as the value the text denotes: a string, an integer literal, a     *)
(* literal with a fraction or an exponent (JFloat(m, e) is m * 10^e), null,*)
(* an object (a function from keys to values) or an array, each kind under *)
(* fields of its own.  A body that is no JSON text is SyntaxError.         *)
(*                                                                         *)
(* Numbers of the model: integer literals up to 2^30 in magnitude, and     *)
(* decimals m * 10^e that are such an integer, or have at most six         *)
(* significant digits, or exceed the f32 range.  ToF32 has no value for    *)
(* any other number.                                                       *)
(***************************************************************************)
JStr(s) == [t |-> "str", s |-> s]
JNum(n) == [t |-> "num", n |-> n]
JFloat(m, e) == [t |-> "float", m |-> m, e |-> e]
JNull == [t |-> "null"]
JObj(o) == [t |-> "obj", o |-> o]
JArr(a) == [t |-> "arr", a |-> a]
SyntaxError == [t |-> "syntax_error"]

\* the field kinds of ReportBody and Report, in declaration order, under
\* their JSON names (#[serde(rename = "type")])
ReportBodyFields ==
    << <<"type", "str">>, <<"elapsed_time", "int">>, <<"method", "str">>,
       <<"phase", "str">>, <<"protocol", "str">>, <<"referrer", "str">>,
       <<"sampling_fraction", "float">>, <<"server_ip", "str">>,
       <<"status_code", "int">> >>
ReportFields ==
    << <<"user_agent", "str">>, <<"url", "str">>, <<"type", "str">>,
       <<"body", "ReportBody">>, <<"age", "int">> >>

\* serde's derived Deserialize takes a struct from a JSON object (by key,
\* unknown keys ignored) or from a JSON array of exactly its fields in order
AsFieldMap(j, fields) ==
    IF j.t = "obj" THEN Some(j.o)
    ELSE IF j.t = "arr" /\ Len(j.a) = Len(fields)
         THEN Some([k \in {fields[i][1] : i \in 1..Len(fields)} |->
                      j.a[CHOOSE i \in 1..Len(fields) : fields[i][1] = k]])
         ELSE None

\* does the JSON value j satisfy a scalar field kind
ScalarOk(j, kind) ==
    IF kind = "str" THEN j.t = "str"
    ELSE IF kind = "int" THEN j.t = "num"
    ELSE j.t \in {"num", "float"}

Abs(n) == IF n < 0 THEN 0 - n ELSE n

RECURSIVE BitLen(_)
BitLen(n) == IF n = 0 THEN 0 ELSE 1 + BitLen(n \div 2)

RECURSIVE DecLen(_)
DecLen(n) == IF n < 10 THEN 1 ELSE 1 + DecLen(n \div 10)

\* m * 10^e with the trailing zeros of m moved into the exponent
RECURSIVE Normalize(_, _)
Normalize(m, e) ==
    IF m = 0 THEN [m |-> 0, e |-> 0]
    ELSE IF m % 10 = 0 THEN Normalize(m \div 10, e + 1)
    ELSE [m |-> m, e |-> e]

\* f32 values: a finite one is held by its shortest decimal that reads back
\* as it (what serde_json writes), the others are infinite
F32(m, e) == [fin |-> TRUE, m |-> Normalize(m, e).m, e |-> Normalize(m, e).e]
F32Inf == [fin |-> FALSE]
Unmodelled == CHOOSE x \in {} : TRUE

\* the integer n >= 0 rounded to the 24-bit significand of f32, ties to even
RoundF32Nat(n) ==
    IF n < 2 ^ 24 THEN n
    ELSE LET s    == BitLen(n) - 24
             q    == n \div (2 ^ s)
             r    == n % (2 ^ s)
             half == 2 ^ (s - 1)
         IN  (IF r > half \/ (r = half /\ q % 2 = 1) THEN q + 1 ELSE q) * (2 ^ s)

\* the shortest decimal that reads back as the f32 integer v >= 0: the one
\* with the most trailing zeros, and of those the nearest to v
ShortestNat(v) ==
    LET Cands(k) == {c \in {(v \div (10 ^ k)) * (10 ^ k),
                            (v \div (10 ^ k) + 1) * (10 ^ k)} : RoundF32Nat(c) = v}
        K == CHOOSE k \in 0..9 :
                Cands(k) # {} /\ \A k2 \in (k + 1)..9 : Cands(k2) = {}
    IN  CHOOSE c \in Cands(K) : \A d \in Cands(K) : Abs(c - v) <= Abs(d - v)

IntToF32(n) ==
    IF Abs(n) > 2 ^ 30 THEN Unmodelled
    ELSE LET c == ShortestNat(RoundF32Nat(Abs(n)))
         IN  F32(IF n < 0 THEN 0 - c ELSE c, 0)

\* the f32 field from a JSON number (`as f32` of the number read)
ToF32(j) ==
    IF j.t = "num" THEN IntToF32(j.n)
    ELSE LET z  == Normalize(j.m, j.e)
             nd == DecLen(Abs(z.m))
             E  == z.e + nd - 1        \* decimal exponent of the first digit
             first6 == IF nd <= 6 THEN Abs(z.m) * (10 ^ (6 - nd))
                       ELSE Abs(z.m) \div (10 ^ (nd - 6))
         IN  IF z.m = 0 THEN F32(0, 0)
             ELSE IF z.e >= 0 /\ nd + z.e <= 9 THEN IntToF32(z.m * (10 ^ z.e))
             ELSE IF E <= 308 /\ (E > 38 \/ (E = 38 /\ first6 > 340282))
                  THEN F32Inf                     \* beyond f32::MAX
             ELSE IF nd <= 6 /\ E >= -37 /\ E <= 38
                  THEN F32(z.m, z.e)              \* six digits survive f32
             ELSE Unmodelled

\* serde_json writes a finite float by its shortest decimal, any other as null
F32_serialize(x) == IF x.fin THEN JFloat(x.m, x.e) ELSE JNull

\* the serde_json::Error of a failed decode; handle_reports drops it
\* (`if let Ok`), so its kind and message are not kept
DecodeError == Err("serde_json::Error")

ReportBody_deserialize(j) ==
    LET m == AsFieldMap(j, ReportBodyFields)
    IN  IF ~m.some THEN DecodeError
        ELSE IF \E i \in 1..Len(ReportBodyFields) :
                    ReportBodyFields[i][1] \notin DOMAIN m.val
             THEN DecodeError
        ELSE IF \E i \in 1..Len(ReportBodyFields) :
                    ~ScalarOk(m.val[ReportBodyFields[i][1]], ReportBodyFields[i][2])
             THEN DecodeError
        ELSE Ok([error_type        |-> m.val["type"].s,
                 elapsed_time      |-> m.val["elapsed_time"].n,
                 method            |-> m.val["method"].s,
                 phase             |-> m.val["phase"].s,
                 protocol          |-> m.val["protocol"].s,
                 referrer          |-> m.val["referrer"].s,
                 sampling_fraction |-> ToF32(m.val["sampling_fraction"]),
                 server_ip         |-> m.val["server_ip"].s,
                 status_code       |-> m.val["status_code"].n])

Report_deserialize(j) ==
    LET m == AsFieldMap(j, ReportFields)
    IN  IF ~m.some THEN DecodeError
        ELSE IF \E i \in 1..Len(ReportFields) :
                    ReportFields[i][1] \notin DOMAIN m.val
             THEN DecodeError
        ELSE IF \E i \in 1..Len(ReportFields) :
                    /\ ReportFields[i][2] # "ReportBody"
                    /\ ~ScalarOk(m.val[ReportFields[i][1]], ReportFields[i][2])
             THEN DecodeError
        ELSE LET b == ReportBody_deserialize(m.val["body"])
             IN  IF ~b.ok THEN DecodeError
                 ELSE Ok([user_agent  |-> m.val["user_agent"].s,
                          url         |-> m.val["url"].s,
                          report_type |-> m.val["type"].s,
                          body        |-> b.val,
                          age         |-> m.val["age"].n])

\* mutant: the elements that fail the Report contract are passed over
Vec_Report_from_reader_Partial(body) ==
    IF body.t = "syntax_error" THEN DecodeError
    ELSE IF body.t # "arr" THEN DecodeError
    ELSE LET good == SelectSeq(body.a, LAMBDA j : Report_deserialize(j).ok)
         IN  Ok([i \in 1..Len(good) |-> Report_deserialize(good[i]).val])

\* serde_json::from_reader::<Body, Vec<Report>>: the body must be a JSON
\* array and every element a Report; the first error fails the whole decode.
Vec_Report_from_reader(body) ==
    IF body.t = "syntax_error" THEN DecodeError
    ELSE IF body.t # "arr" THEN DecodeError
    ELSE IF \E i \in 1..Len(body.a) : ~Report_deserialize(body.a[i]).ok
         THEN DecodeError
    ELSE Ok([i \in 1..Len(body.a) |-> Report_deserialize(body.a[i]).val])

\* derived Serialize of ReportBody, Report, ClientData and LogLine
ReportBody_serialize(b) ==
    JObj([type              |-> JStr(b.error_type),
          elapsed_time      |-> JNum(b.elapsed_time),
          method            |-> JStr(b.method),
          phase             |-> JStr(b.phase),
          protocol          |-> JStr(b.protocol),
          referrer          |-> JStr(b.referrer),
          sampling_fraction |-> F32_serialize(b.sampling_fraction),
          server_ip         |-> JStr(b.server_ip),
          status_code       |-> JNum(b.status_code)])

Report_serialize(r) ==
    JObj([user_agent |-> JStr(r.user_agent),
          url        |-> JStr(r.url),
          type       |-> JStr(r.report_type),
          body       |-> ReportBody_serialize(r.body),
          age        |-> JNum(r.age)])

ClientData_serialize(c) ==
    JObj([client_ip             |-> JStr(c.client_ip),
          client_user_agent     |-> JStr(c.client_user_agent),
          client_asn            |-> JNum(c.client_asn),
          client_asname         |-> JStr(c.client_asname),
          client_city           |-> JStr(c.client_city),
          client_region         |-> JStr(c.client_region),
          client_country_code   |-> JStr(c.client_country_code),
          client_continent_code |-> JStr(c.client_continent_code),
          client_latitude       |-> JFloat(c.client_latitude.m, c.client_latitude.e),
          client_longitude      |-> JFloat(c.client_longitude.m, c.client_longitude.e)])

LogLine_serialize(l) ==
    JObj([timestamp |-> JNum(l.timestamp),
          client    |-> ClientData_serialize(l.client),
          report    |-> Report_serialize(l.report)])

(***************************************************************************)
(* Inputs: the requests a client can send and what the platform can        *)
(* answer.                                                                 *)
(***************************************************************************)
Methods == {"GET", "POST", "OPTIONS", "PUT"}
Paths == {"/report", "/unknown", "/report/"}

ChromeUA == "Mozilla/5.0 (X11; Linux x86_64) Chrome/91.0.4472.114 Safari/537.36"
\* the User-Agent header: absent, a visible-ASCII value, or bytes that
\* HeaderValue::to_str rejects
UserAgentHeaders ==
    {None,
     Some([bytes |-> ChromeUA, visible_ascii |-> TRUE]),
     Some([bytes |-> "curl/7", visible_ascii |-> TRUE]),
     Some([bytes |-> "caf\\xe9", visible_ascii |-> FALSE])}

GoodBody ==
    JObj([type |-> JStr("dns.name_not_resolved"), elapsed_time |-> JNum(100),
          method |-> JStr("GET"), phase |-> JStr("dns"),
          protocol |-> JStr("http/1.1"), referrer |-> JStr(""),
          sampling_fraction |-> JFloat(1, 0), server_ip |-> JStr("192.0.2.1"),
          status_code |-> JNum(0)])
\* an integer literal where a float is expected, and one that f32 does not
\* hold (it reads back as 16777216.0); a negative elapsed_time
OtherBody ==
    JObj([type |-> JStr("tcp.timed_out"), elapsed_time |-> JNum(-1),
          method |-> JStr("POST"), phase |-> JStr("connection"),
          protocol |-> JStr("h2"), referrer |-> JStr("https://a.test/"),
          sampling_fraction |-> JNum(16777217), server_ip |-> JStr(""),
          status_code |-> JNum(0)])
\* status_code is missing
BadBody ==
    JObj([type |-> JStr("ok"), elapsed_time |-> JNum(5),
          method |-> JStr("GET"), phase |-> JStr("application"),
          protocol |-> JStr("h2"), referrer |-> JStr(""),
          sampling_fraction |-> JFloat(5, -1), server_ip |-> JStr("192.0.2.1")])

ReportA ==
    JObj([user_agent |-> JStr("x"), url |-> JStr("https://a.test/"),
          type |-> JStr("network-error"), age |-> JNum(10), body |-> GoodBody])
\* an unknown key, which the decoder ignores
ReportB ==
    JObj([user_agent |-> JStr("y"), url |-> JStr("https://b.test/"),
          type |-> JStr("network-error"), age |-> JNum(0), body |-> OtherBody,
          extra |-> JStr("ignored")])
\* age is a string
BadAge ==
    JObj([user_agent |-> JStr("x"), url |-> JStr("https://a.test/"),
          type |-> JStr("network-error"), age |-> JStr("10"), body |-> GoodBody])
\* the nested body fails the ReportBody contract
BadNested ==
    JObj([user_agent |-> JStr("x"), url |-> JStr("https://a.test/"),
          type |-> JStr("network-error"), age |-> JNum(10), body |-> BadBody])

Elements == {ReportA, ReportB, BadAge, BadNested, JNum(7)}

SeqsUpTo(S, n) == UNION {[1..k -> S] : k \in 0..n}

\* request bodies: not JSON, JSON of the wrong top-level shape, and arrays
Bodies ==
    {SyntaxError, ReportA, JStr("not an array")}
        \cup {JArr(a) : a \in SeqsUpTo(Elements, MaxReports)}

Requests ==
    [method : Methods, path : Paths, user_agent : UserAgentHeaders, body : Bodies]

\* the requests whose body is one report, or no JSON
OneReportRequests ==
    [method : Methods, path : Paths, user_agent : UserAgentHeaders,
     body : {SyntaxError, JArr(<<ReportA>>)}]

\* what downstream_client_ip_addr() can report
ClientIps ==
    {V4(198, 51, 100, 37), V4(255, 255, 255, 255),
     V6(<<8193, 3512, 4660, 22271, 65535, 65535, 65535, 65535>>),
     V6(<<0, 0, 0, 0, 0, 65535, 49152, 513>>)}

\* a wider set of addresses: every last octet of an IPv4 network, the
\* corners of the IPv4 space, and IPv6 addresses that differ in the segment
\* the /56 boundary cuts and in where their zero segments lie
WideClientIps ==
    {V4(198, 51, 100, d) : d \in 0..255}
        \cup {V4(a, a, a, d) : a \in {0, 10, 255}, d \in {0, 15, 16, 240, 255}}
        \cup {V6(<<a, b, 4660, h, t, 0, t, 1>>) :
                 a \in {0, 8193}, b \in {0, 3512},
                 h \in {0, 1, 255, 256, 22271, 65280, 65535}, t \in {0, 65535}}
        \cup {V6(<<0, 0, 0, h, 0, t, 49152, 513>>) : h \in {0, 255, 256}, t \in {0, 65535}}
        \cup {V6(<<65535, 65535, 65535, 65535, 65535, 65535, 65535, 65535>>),
              V6(<<8193, 0, 0, 255, 43981, 0, 0, 1>>)}
        \cup ClientIps

\* downstream_client_ip_addr() is an Option: the platform may have no address
ClientIpOutcomes(ips) == {None} \cup {Some(ip) : ip \in ips}

\* what fastly::geo::geo_lookup can answer besides None
Geos ==
    {[as_number |-> 54113, as_name |-> "fastly", city |-> "san francisco",
      region |-> Some("CA"), country_code |-> "US", continent |-> "NA",
      latitude |-> [m |-> 3777, e |-> -2], longitude |-> [m |-> -12242, e |-> -2]],
     [as_number |-> 0, as_name |-> "?", city |-> "",
      region |-> None, country_code |-> "", continent |-> "EU",
      latitude |-> [m |-> 0, e |-> 0], longitude |-> [m |-> 0, e |-> 0]]}
GeoOutcomes == {None} \cup {Some(g) : g \in Geos}

\* what fastly::uap_parse answers for a header value when it succeeds:
\* (family, major, minor, patch)
UapTable(s) ==
    IF s = ChromeUA THEN <<"Chrome", Some("91"), Some("0"), Some("4472")>>
    ELSE IF s = "curl/7" THEN <<"curl", Some("7"), None, None>>
    ELSE <<"Other", None, None, None>>
UapOutcomes(s) == {Err("uap_parse failed"), Ok(UapTable(s))}

\* Utc::now().timestamp() over n successive calls: the wall clock, which
\* may also be set back between two calls
Timestamps(n) == [1..n -> 0..MaxClock]

(***************************************************************************)
(* The program.                                                            *)
(***************************************************************************)
unwrap_or_default(o) == IF o.some THEN o.val ELSE ""

\* UserAgent::from_str on the parser's answer
UserAgent_from_str(uap) ==
    IF ~uap.ok THEN Err(uap.err)
    ELSE Ok([family |-> uap.val[1],
             major  |-> unwrap_or_default(uap.val[2]),
             minor  |-> unwrap_or_default(uap.val[3]),
             patch  |-> unwrap_or_default(uap.val[4])])

\* Display for UserAgent: "{} {}.{}.{}"
UserAgent_to_string(ua) ==
    ua.family \o " " \o ua.major \o "." \o ua.minor \o "." \o ua.patch

\* header_val: "" for an absent header and for one to_str rejects
header_val(h) ==
    IF h.some THEN (IF h.val.visible_ascii THEN h.val.bytes ELSE "") ELSE ""

\* mutant: a geo lookup miss falls back to a ClientData without geo fields
ClientData_new_Fallback(client_ip, geo, uap) ==
    LET ip == truncate_ip_to_prefix(client_ip)
        ua == UserAgent_from_str(uap)
        g  == IF geo.some THEN geo.val
              ELSE [as_number |-> 0, as_name |-> "", city |-> "", region |-> None,
                    country_code |-> "", continent |-> "",
                    latitude |-> [m |-> 0, e |-> 0],
                    longitude |-> [m |-> 0, e |-> 0]]
    IN  IF ~ip.ok THEN Err(ip.err)
        ELSE IF ~ua.ok THEN Err(ua.err)
        ELSE Ok([client_ip             |-> ip.val,
                 client_user_agent     |-> UserAgent_to_string(ua.val),
                 client_asn            |-> g.as_number,
                 client_asname         |-> g.as_name,
                 client_city           |-> g.city,
                 client_region         |-> unwrap_or_default(g.region),
                 client_country_code   |-> g.country_code,
                 client_latitude       |-> g.latitude,
                 client_longitude      |-> g.longitude,
                 client_continent_code |-> g.continent])

\* ClientData::new, given what geo_lookup(client_ip) and uap_parse answer.
\* The geo lookup decides first; the fields are then evaluated in order, so
\* the address is truncated before the user agent is parsed.
ClientData_new(client_ip, geo, uap) ==
    IF ~geo.some THEN Err("Unable to lookup geo IP data")
    ELSE LET ip == truncate_ip_to_prefix(client_ip)
             ua == UserAgent_from_str(uap)
         IN  IF ~ip.ok THEN Err(ip.err)
             ELSE IF ~ua.ok THEN Err(ua.err)
             ELSE Ok([client_ip             |-> ip.val,
                      client_user_agent     |-> UserAgent_to_string(ua.val),
                      client_asn            |-> geo.val.as_number,
                      client_asname         |-> geo.val.as_name,
                      client_city           |-> geo.val.city,
                      client_region         |-> unwrap_or_default(geo.val.region),
                      client_country_code   |-> geo.val.country_code,
                      client_latitude       |-> geo.val.latitude,
                      client_longitude      |-> geo.val.longitude,
                      client_continent_code |-> geo.val.continent])

\* does ClientData::new get as far as calling uap_parse
UapParseReached(client_ip, geo) ==
    geo.some /\ truncate_ip_to_prefix(client_ip).ok

\* LogLine::new with the clock reading `now`
LogLine_new(report, client, now) ==
    Ok([timestamp |-> now, client |-> client, report |-> report])

\* mutant: the first report is lost
CollectLogs_SkipFirst(reports, client, ts) ==
    [i \in 1..(Len(reports) - 1) |->
        [timestamp |-> ts[i + 1], client |-> client, report |-> reports[i + 1]]]

\* mutant: the reports are taken last to first
CollectLogs_Reversed(reports, client, ts) ==
    [i \in 1..Len(reports) |->
        [timestamp |-> ts[i], client |-> client,
         report |-> reports[Len(reports) + 1 - i]]]

\* reports.into_iter().map(LogLine::new).filter_map(Result::ok).collect()
CollectLogs(reports, client, ts) ==
    LET made == [i \in 1..Len(reports) |-> LogLine_new(reports[i], client, ts[i])]
        kept == SelectSeq(made, LAMBDA r : r.ok)
    IN  [i \in 1..Len(kept) |-> kept[i].val]

\* generate_no_content_response
generate_no_content_response ==
    Ok([status  |-> NO_CONTENT,
        headers |-> {<<"content-type", "application/json">>,
                     <<"cache-control", "no-cache, no-store, max-age=0, must-revalidate">>,
                     <<"access-control-allow-origin", "*">>,
                     <<"access-control-allow-headers", "content-type">>,
                     <<"access-control-allow-methods", "POST, OPTIONS">>,
                     <<"connection", "keep-alive">>},
        body    |-> "No content"])

not_found_response ==
    Ok([status |-> NOT_FOUND, headers |-> {}, body |-> "Not found"])

\* mutant: the OPTIONS arm is missing, a preflight is handled as a report
Route_OptionsHandled(method, path) ==
    IF method \in {"OPTIONS", "POST"} /\ path = "/report" THEN "handle_reports"
    ELSE "not_found"

\* mutant: the path is not matched
Route_AnyPath(method, path) ==
    IF method = "OPTIONS" THEN "no_content"
    ELSE IF method = "POST" THEN "handle_reports"
    ELSE "not_found"

\* the match of main on (method, path)
Route(method, path) ==
    IF method = "OPTIONS" /\ path = "/report" THEN "no_content"
    ELSE IF method = "POST" /\ path = "/report" THEN "handle_reports"
    ELSE "not_found"

\* mutant: a serialization error leaves the loop like a write error
EmitOutcome_SerFatal(ser_ok, text_ok, newline_ok) ==
    IF ~ser_ok \/ ~text_ok THEN "failed"
    ELSE IF ~newline_ok THEN "failed_newline"
    ELSE "written"

\* mutant: a write error is passed over and the loop goes on
EmitOutcome_WriteSwallowed(ser_ok, text_ok, newline_ok) ==
    IF ser_ok /\ text_ok /\ newline_ok THEN "written" ELSE "skipped"

\* one iteration of the emit loop.  A record that fails to serialize is
\* passed over.  writeln!(endpoint, "{}", json) makes two writes to the
\* endpoint, the JSON text and then "\n"; the first that fails leaves
\* handle_reports through `?`, the second with the text already written.
EmitOutcome(ser_ok, text_ok, newline_ok) ==
    IF ~ser_ok THEN "skipped"
    ELSE IF ~text_ok THEN "failed"
    ELSE IF ~newline_ok THEN "failed_newline"
    ELSE "written"

VARIABLES
    pc,           \* where the program is
    req,          \* the request main was given
    reports,      \* the decoded Vec<Report>
    client_ip,    \* downstream_client_ip_addr()
    client_data,  \* the ClientData of the request
    logs,         \* the Vec<LogLine>
    idx,          \* the position of the emit loop in logs
    sink,         \* the complete lines of the "reports" log endpoint
    sink_tail,    \* the text written to it after the last newline, if any
    response,     \* what main returned
    calls         \* history: the calls to collaborators, in order

vars == <<pc, req, reports, client_ip, client_data, logs, idx, sink, sink_tail,
          response, calls>>

Call(op, i, ok) == [op |-> op, i |-> i, ok |-> ok]

Init ==
    /\ pc = "idle"
    /\ req = None
    /\ reports = <<>>
    /\ client_ip = None
    /\ client_data = None
    /\ logs = <<>>
    /\ idx = 1
    /\ sink = <<>>
    /\ sink_tail = None
    /\ response = None
    /\ calls = <<>>

\* a request arrives and main is entered
Receive(requests) ==
    /\ pc = "idle"
    /\ \E r \in requests : req' = Some(r)
    /\ pc' = "main"
    /\ UNCHANGED <<reports, client_ip, client_data, logs, idx, sink, sink_tail, response,
                   calls>>

\* main: (OPTIONS, "/report") => generate_no_content_response()
MainOptions ==
    /\ pc = "main"
    /\ Route(req.val.method, req.val.path) = "no_content"
    /\ response' = Some(generate_no_content_response)
    /\ pc' = "done"
    /\ UNCHANGED <<req, reports, client_ip, client_data, logs, idx, sink, sink_tail, calls>>

\* main: _ => 404
MainNotFound ==
    /\ pc = "main"
    /\ Route(req.val.method, req.val.path) = "not_found"
    /\ response' = Some(not_found_response)
    /\ pc' = "done"
    /\ UNCHANGED <<req, reports, client_ip, client_data, logs, idx, sink, sink_tail, calls>>

\* main: (POST, "/report") => handle_reports(req), up to the decode of the
\* body; a body that does not decode skips the whole if-let block
HandleDecode ==
    /\ pc = "main"
    /\ Route(req.val.method, req.val.path) = "handle_reports"
    /\ LET r == Vec_Report_from_reader(req.val.body)
       IN  /\ calls' = Append(calls, Call("from_reader", 0, r.ok))
           /\ reports' = IF r.ok THEN r.val ELSE <<>>
           /\ pc' = IF r.ok THEN "client_data" ELSE "return"
    /\ UNCHANGED <<req, client_ip, client_data, logs, idx, sink, sink_tail, response>>

\* handle_reports: the client IP, the User-Agent header and ClientData::new.
\* Without a client address expect() panics and main returns nothing; an
\* error of ClientData::new leaves handle_reports, and main, through `?`.
HandleClientData(ips) ==
    /\ pc = "client_data"
    /\ \E ipo \in ClientIpOutcomes(ips) :
          IF ~ipo.some
          THEN /\ calls' = Append(calls, Call("downstream_client_ip_addr", 0, FALSE))
               /\ pc' = "panicked"
               /\ UNCHANGED <<client_ip, client_data, response>>
          ELSE \E geo \in GeoOutcomes,
                  uap \in UapOutcomes(header_val(req.val.user_agent)) :
               LET ip == ipo.val
                   r == ClientData_new(ip, geo, uap)
                   parsed == UapParseReached(ip, geo)
               IN  /\ client_ip' = Some(ip)
                   /\ calls' = calls
                         \o <<Call("downstream_client_ip_addr", 0, TRUE),
                              Call("geo_lookup", 0, geo.some)>>
                         \o (IF geo.some
                             THEN <<Call("truncate_ip_to_prefix", 0,
                                         truncate_ip_to_prefix(ip).ok)>>
                             ELSE <<>>)
                         \o (IF parsed THEN <<Call("uap_parse", 0, uap.ok)>>
                             ELSE <<>>)
                   /\ client_data' = IF r.ok THEN Some(r.val) ELSE None
                   /\ pc' = IF r.ok THEN "logs" ELSE "done"
                   /\ response' = IF r.ok THEN response ELSE Some(Err(r.err))
    /\ UNCHANGED <<req, reports, logs, idx, sink, sink_tail>>

\* handle_reports: every report becomes a LogLine with the shared ClientData
HandleLogs ==
    /\ pc = "logs"
    /\ \E ts \in Timestamps(Len(reports)) :
          logs' = CollectLogs(reports, client_data.val, ts)
    /\ idx' = 1
    /\ pc' = "emit"
    /\ UNCHANGED <<req, reports, client_ip, client_data, sink, sink_tail, response, calls>>

\* handle_reports: one iteration of `for log in logs.iter()`
HandleEmit ==
    /\ pc = "emit"
    /\ idx <= Len(logs)
    /\ \E ser_ok \in BOOLEAN, text_ok \in BOOLEAN, newline_ok \in BOOLEAN :
          LET out == EmitOutcome(ser_ok, text_ok, newline_ok)
              failed == out \in {"failed", "failed_newline"}
          IN  /\ calls' = calls \o <<Call("to_string", idx, ser_ok)>>
                            \o (IF ser_ok THEN <<Call("write", idx, text_ok)>>
                                ELSE <<>>)
                            \o (IF ser_ok /\ text_ok
                                THEN <<Call("write_newline", idx, newline_ok)>>
                                ELSE <<>>)
              /\ sink' = IF out = "written"
                         THEN Append(sink, LogLine_serialize(logs[idx]))
                         ELSE sink
              /\ sink_tail' = IF out = "failed_newline"
                              THEN Some(LogLine_serialize(logs[idx]))
                              ELSE sink_tail
              /\ idx' = IF failed THEN idx ELSE idx + 1
              /\ pc' = IF failed THEN "done" ELSE "emit"
              /\ response' = IF failed
                             THEN Some(Err("log endpoint write failed"))
                             ELSE response
    /\ UNCHANGED <<req, reports, client_ip, client_data, logs>>

\* handle_reports: the loop is over
HandleEmitEnd ==
    /\ pc = "emit"
    /\ idx > Len(logs)
    /\ pc' = "return"
    /\ UNCHANGED <<req, reports, client_ip, client_data, logs, idx, sink, sink_tail,
                   response, calls>>

\* handle_reports: generate_no_content_response()
HandleReturn ==
    /\ pc = "return"
    /\ response' = Some(generate_no_content_response)
    /\ pc' = "done"
    /\ UNCHANGED <<req, reports, client_ip, client_data, logs, idx, sink, sink_tail, calls>>

\* what main does after Receive
Handle(ips) ==
    \/ MainOptions
    \/ MainNotFound
    \/ HandleDecode
    \/ HandleClientData(ips)
    \/ HandleLogs
    \/ HandleEmit
    \/ HandleEmitEnd
    \/ HandleReturn

Next == Receive(Requests) \/ Handle(ClientIps)

Spec == Init /\ [][Next]_vars

\* the same program on one-report requests from the wider set of addresses
NextIp == Receive(OneReportRequests) \/ Handle(WideClientIps)

SpecIp == Init /\ [][NextIp]_vars

(***************************************************************************)
(* Vocabulary of the properties.                                           *)
(***************************************************************************)
Done == pc = "done"
\* main is over: it returned, or it panicked and returned nothing
Terminated == pc \in {"done", "panicked"}
\* nothing was written to the log endpoint, not even part of a line
EndpointEmpty == sink = <<>> /\ ~sink_tail.some
IsRequest(method, path) ==
    req.some /\ req.val.method = method /\ req.val.path = path
ReportPost == IsRequest("POST", "/report")

\* the fixed no-content response: status 204 and the six headers
FixedHeaders ==
    {<<"content-type", "application/json">>,
     <<"cache-control", "no-cache, no-store, max-age=0, must-revalidate">>,
     <<"access-control-allow-origin", "*">>,
     <<"access-control-allow-headers", "content-type">>,
     <<"access-control-allow-methods", "POST, OPTIONS">>,
     <<"connection", "keep-alive">>}
IsFixed204(resp) ==
    resp.some /\ resp.val.ok /\ resp.val.val.status = 204
        /\ resp.val.val.headers = FixedHeaders
Is404(resp) == resp.some /\ resp.val.ok /\ resp.val.val.status = 404

Called(op) == \E k \in 1..Len(calls) : calls[k].op = op
Happened(op, i, ok) == \E k \in 1..Len(calls) : calls[k] = Call(op, i, ok)
Failed(op) == \E k \in 1..Len(calls) : calls[k].op = op /\ ~calls[k].ok
CountOf(op) == Cardinality({k \in 1..Len(calls) : calls[k].op = op})
NoFailure == \A k \in 1..Len(calls) : calls[k].ok

\* the elements of the input set that are well-formed Report objects
WellFormed == {ReportA, ReportB}
BodyIsReportArray(body) ==
    body.t = "arr" /\ \A i \in 1..Len(body.a) : body.a[i] \in WellFormed
Submitted == IF req.some /\ req.val.body.t = "arr" THEN Len(req.val.body.a) ELSE 0

\* writeln! of record i: its line is complete once the newline is written, it
\* fails when either of its two writes fails
LineWritten(i) == Happened("write_newline", i, TRUE)
WriteFailedAt(i) == Happened("write", i, FALSE) \/ Happened("write_newline", i, FALSE)
WriteFailed == Failed("write") \/ Failed("write_newline")
WriteCalled == Called("write") \/ Called("write_newline")

\* the positions of the log lines written, in the order of the writes
WrittenIdx ==
    LET w == SelectSeq(calls, LAMBDA c : c.op = "write_newline" /\ c.ok)
    IN  [k \in 1..Len(w) |-> w[k].i]

\* the network an address belongs to, by arithmetic on its last kept word
ExpectedNetwork(ip) ==
    IF ip.family = "V4"
    THEN <<ip.parts[1], ip.parts[2], ip.parts[3], ip.parts[4] - (ip.parts[4] % 16)>>
    ELSE <<ip.parts[1], ip.parts[2], ip.parts[3],
           ip.parts[4] - (ip.parts[4] % 256), 0, 0, 0, 0>>
ExpectedCidr(ip) ==
    IF ip.family = "V4"
    THEN Ipv4Addr_to_string(ExpectedNetwork(ip)) \o "/28"
    ELSE Ipv6Addr_to_string(ExpectedNetwork(ip)) \o "/56"
\* networks written out by hand
KnownCidr ==
    {<<V4(198, 51, 100, 37), "198.51.100.32/28">>,
     <<V4(255, 255, 255, 255), "255.255.255.240/28">>,
     <<V4(10, 10, 10, 15), "10.10.10.0/28">>,
     <<V4(198, 51, 100, 255), "198.51.100.240/28">>,
     <<V6(<<0, 0, 4660, 256, 0, 0, 0, 1>>), "0:0:1234:100::/56">>,
     <<V6(<<8193, 3512, 4660, 22271, 65535, 65535, 65535, 65535>>),
       "2001:db8:1234:5600::/56">>,
     <<V6(<<8193, 0, 0, 255, 43981, 0, 0, 1>>), "2001::/56">>,
     <<V6(<<0, 0, 0, 0, 0, 65535, 49152, 513>>), "::/56">>,
     <<V6(<<65535, 65535, 65535, 65535, 65535, 65535, 65535, 65535>>),
       "ffff:ffff:ffff:ff00::/56">>}

(***************************************************************************)
(* C1: every POST /report is answered with the fixed 204 response,        *)
(* whatever the decode, the client-context resolution and the log writes   *)
(* do.  The code leaves handle_reports with an error through `?` when      *)
(* ClientData::new or writeln! fails, and panics when the platform has no  *)
(* client address, so this is violated.                                    *)
(***************************************************************************)
C1_AlwaysNoContent ==
    (Terminated /\ ReportPost) => IsFixed204(response)

(***************************************************************************)
(* C2: when the body decoded and the client-context resolution fails (geo  *)
(* miss, user-agent parse error or mask error), no log line is written,    *)
(* whatever the number of reports.                                         *)
(***************************************************************************)
C2_NoLinesWhenResolutionFails ==
    (/\ Happened("from_reader", 0, TRUE)
     /\ \/ Failed("geo_lookup")
        \/ Failed("truncate_ip_to_prefix")
        \/ Failed("uap_parse"))
    => (EndpointEmpty /\ ~Called("to_string") /\ ~WriteCalled)

C2_Witness ==
    /\ Done
    /\ ReportPost
    /\ Submitted >= 2
    /\ Happened("from_reader", 0, TRUE)
    /\ Failed("geo_lookup")
    /\ EndpointEmpty

(***************************************************************************)
(* C3: a body of N reports, with the resolution, every serialization and   *)
(* every write succeeding, gives exactly N log lines, all with the client  *)
(* sub-object of the one ClientData resolved for the request.              *)
(***************************************************************************)
C3_OneLinePerReport ==
    (Done /\ ReportPost /\ Happened("from_reader", 0, TRUE) /\ NoFailure)
    => /\ Len(sink) = Submitted
       /\ ~sink_tail.some
       /\ CountOf("geo_lookup") = 1
       /\ CountOf("uap_parse") = 1
       /\ client_data.some
       /\ \A k \in 1..Len(sink) :
             sink[k].o.client = ClientData_serialize(client_data.val)

C3_Witness ==
    /\ Done
    /\ ReportPost
    /\ NoFailure
    /\ Submitted = 2
    /\ Len(sink) = 2
    /\ sink[1].o.client = sink[2].o.client
    /\ sink[1].o.report # sink[2].o.report

(***************************************************************************)
(* C4: decoding is atomic: a body that is not a JSON array of well-formed  *)
(* Report objects gives no log line, also for its well-formed elements.    *)
(***************************************************************************)
C4_DecodeAtomic ==
    (req.some /\ ~BodyIsReportArray(req.val.body))
    => (EndpointEmpty /\ ~Called("geo_lookup") /\ ~WriteCalled)

C4_Witness ==
    /\ Done
    /\ ReportPost
    /\ req.val.body.t = "arr"
    /\ \E i, j \in 1..Submitted :
          req.val.body.a[i] \in WellFormed /\ req.val.body.a[j] \notin WellFormed
    /\ Happened("from_reader", 0, FALSE)
    /\ EndpointEmpty

(***************************************************************************)
(* C5: a record that fails to serialize is the only one its failure keeps  *)
(* from the log: the loop goes on to every later record, the records       *)
(* serialized and written before and after it are in the log, and the      *)
(* request does not end in an error because of it.  (A record is otherwise *)
(* missing only from a failed write on, C9.)                               *)
(***************************************************************************)
C5_SerializationFailureIsolated ==
    (Done /\ client_data.some)
    => /\ \A i \in 1..Len(logs) :
             \/ \E j \in 1..i : WriteFailedAt(j)
             \/ /\ Happened("to_string", i, TRUE) \/ Happened("to_string", i, FALSE)
                /\ Happened("to_string", i, TRUE) => LineWritten(i)
       /\ Len(sink) = Len(WrittenIdx)
       /\ \A k \in 1..Len(sink) : sink[k] = LogLine_serialize(logs[WrittenIdx[k]])
       /\ ~WriteFailed => IsFixed204(response)

C5_Witness ==
    /\ Done
    /\ Len(logs) = 2
    /\ Happened("to_string", 1, FALSE)
    /\ LineWritten(2)
    /\ Len(sink) = 1
    /\ IsFixed204(response)

(***************************************************************************)
(* C6: every log line carries as client_ip the client address masked to    *)
(* its network, in CIDR notation: the /28 network of an IPv4 address (the  *)
(* low 4 bits of the last octet zero), the /56 network of an IPv6 address  *)
(* (the low 72 bits zero), never the address itself; a ClientData is never *)
(* built with anything else.                                               *)
(***************************************************************************)
C6_ClientIpMasked ==
    /\ client_data.some =>
          /\ client_data.val.client_ip = ExpectedCidr(client_ip.val)
          /\ \A kc \in KnownCidr :
                kc[1] = client_ip.val => client_data.val.client_ip = kc[2]
    /\ \A k \in 1..Len(sink) :
          /\ sink[k].o.client.o.client_ip = JStr(ExpectedCidr(client_ip.val))
          /\ sink[k].o.client.o.client_ip.s # IpAddr_to_string(client_ip.val)
    /\ sink_tail.some =>
          sink_tail.val.o.client.o.client_ip = JStr(ExpectedCidr(client_ip.val))

C6_Witness ==
    /\ Done
    /\ client_ip = Some(V4(198, 51, 100, 37))
    /\ Len(sink) = 1
    /\ sink[1].o.client.o.client_ip = JStr("198.51.100.32/28")

(***************************************************************************)
(* C7: OPTIONS /report is answered with the fixed 204 response and nothing *)
(* is processed: no decode, no geo lookup, no user-agent parse, no line.   *)
(***************************************************************************)
C7_OptionsNoProcessing ==
    IsRequest("OPTIONS", "/report")
    => /\ calls = <<>>
       /\ EndpointEmpty
       /\ Done => IsFixed204(response)

C7_Witness ==
    /\ Done
    /\ IsRequest("OPTIONS", "/report")
    /\ BodyIsReportArray(req.val.body)
    /\ Submitted >= 1
    /\ IsFixed204(response)

(***************************************************************************)
(* C8: a request that is neither OPTIONS /report nor POST /report is       *)
(* answered 404 and nothing is processed.                                  *)
(***************************************************************************)
C8_OtherRoutesNotFound ==
    (req.some /\ ~IsRequest("OPTIONS", "/report") /\ ~ReportPost)
    => /\ calls = <<>>
       /\ EndpointEmpty
       /\ Done => Is404(response)

C8_Witness ==
    /\ Done
    /\ IsRequest("POST", "/unknown")
    /\ BodyIsReportArray(req.val.body)
    /\ Submitted >= 1
    /\ Is404(response)

(***************************************************************************)
(* C9: a failed write is not retried and ends the emit loop: each of the   *)
(* two writes of a record (its text, its newline) is attempted at most     *)
(* once, nothing is called after a failed write, no later record reaches   *)
(* the endpoint, and the log holds the lines written before the failure.   *)
(* What the endpoint holds after its last complete line is the text of the *)
(* failed record itself, when it is the newline that failed.               *)
(***************************************************************************)
C9_WriteFailureFatal ==
    /\ \A k, l \in 1..Len(calls) :
          (/\ calls[k].op \in {"write", "write_newline"}
           /\ calls[l].op = calls[k].op
           /\ calls[k].i = calls[l].i)
              => k = l
    /\ \A k \in 1..Len(calls) :
          (calls[k].op \in {"write", "write_newline"} /\ ~calls[k].ok)
              => /\ k = Len(calls)
                 /\ Done
                 /\ Len(sink) = Len(WrittenIdx)
                 /\ \A m \in 1..Len(sink) :
                       /\ WrittenIdx[m] < calls[k].i
                       /\ sink[m] = LogLine_serialize(logs[WrittenIdx[m]])
                 /\ sink_tail.some =>
                       /\ calls[k].op = "write_newline"
                       /\ sink_tail.val = LogLine_serialize(logs[calls[k].i])
    /\ sink_tail.some => Failed("write_newline")

C9_Witness ==
    /\ Done
    /\ Len(logs) = 2
    /\ LineWritten(1)
    /\ Happened("write_newline", 2, FALSE)
    /\ Len(sink) = 1
    /\ sink_tail = Some(LogLine_serialize(logs[2]))

\* the log holds, in the order of the submitted array, the lines of the
\* reports at the positions written
C10_InOrder ==
    /\ Len(sink) = Len(WrittenIdx)
    /\ \A k \in 1..Len(sink) :
          /\ \A m \in 1..(k - 1) : WrittenIdx[m] < WrittenIdx[k]
          /\ WrittenIdx[k] <= Submitted
          /\ sink[k].o.report
                = Report_serialize(Report_deserialize(req.val.body.a[WrittenIdx[k]]).val)

(***************************************************************************)
(* C10: the lines of a request are written in the order of the submitted   *)
(* array, each the line of the report at its position, and all of them     *)
(* before the response: once there is a response the log does not change.  *)
(***************************************************************************)
C10_SubmissionOrder ==
    /\ [](C10_InOrder)
    /\ [][response.some => (sink' = sink /\ sink_tail' = sink_tail
                               /\ response' = response)]_vars

C10_Witness ==
    /\ Done
    /\ IsFixed204(response)
    /\ Len(sink) = 2
    /\ sink[1].o.report = Report_serialize(Report_deserialize(ReportA).val)
    /\ sink[2].o.report = Report_serialize(Report_deserialize(ReportB).val)
====
